---- MODULE Spec2Model ----
(***************************************************************************)
(* Model of fetlife-data-tools: the Obsidian vault front-matter engine     *)
(* (obsidian/Vault.go) and the sync command (program/sync.go).             *)
(*                                                                         *)
(* A Go string is a sequence of tokens.  A token is one character ("a",    *)
(* "-", "\n", " ", a digit, "/") or one fixed piece of text that is never  *)
(* split ("https://fetlife.com", "users", "url:", ".md", ...).  Substring, *)
(* prefix, suffix, index and replace are computed on token sequences.      *)
(*                                                                         *)
(* Intermediate results are passed as operator parameters rather than      *)
(* bound by LET, so that each definition is expanded once where it is used. *)
(***************************************************************************)
EXTENDS Integers, Sequences, FiniteSets, TLC

\* ------------------------------------------------------------------ bounds
\* longest value / raw text drawn for the page specification
MaxLen == 4
\* most load/save operations in one behaviour of the page specification
MaxOps == 3

\* ------------------------------------------------------------------ tokens
NL == "\n"
DASH == "-"
SP == " "
SLASH == "/"
\* YAML syntax pieces written by yaml.Marshal
SQ == "'"
DQ == "dq"
ESCN == "\\n"
IND == "    "
ITEM == "    - "
\* a sequence item as the templates and hand-written pages indent it
ITEM2 == "  - "
ItemTokens == {ITEM, ITEM2}
\* block scalar headers: strip, clip, keep
BlockHeaders == {"|-", "|", "|+"}
Digits == {"1", "2", "4", "5"}

\* the delimiter "---\n" of Vault.go:94,96,204,206
DELIM == <<DASH, DASH, DASH, NL>>

\* the keys of a front-matter mapping
KeyTokens ==
  {"aliases:", "tags:", "url-aliases:", "url:", "web-badge-color:", "web-message:", "custom:"}

\* ------------------------------------------------------------------ strings
Min(S) == CHOOSE x \in S : \A y \in S : x <= y

MinOr(S, none) == IF S = {} THEN none ELSE Min(S)

HasPrefix(s, p) == Len(s) >= Len(p) /\ SubSeq(s, 1, Len(p)) = p

HasSuffix(s, p) == Len(s) >= Len(p) /\ SubSeq(s, Len(s) - Len(p) + 1, Len(s)) = p

\* strings.Index: 0-based position of the first occurrence, -1 if none
Index(s, p) == MinOr({i \in 0..(Len(s) - Len(p)) : SubSeq(s, i + 1, i + Len(p)) = p}, -1)

StrContains(s, p) == \E i \in 0..(Len(s) - Len(p)) : SubSeq(s, i + 1, i + Len(p)) = p

\* the position of the first token t in s, 0 if none
Find(s, t) == MinOr({j \in 1..Len(s) : s[j] = t}, 0)

\* strings.Split on a one-token separator
RECURSIVE Split(_, _)
SplitAt(s, t, i) ==
  IF i = 0 THEN <<s>> ELSE <<SubSeq(s, 1, i - 1)>> \o Split(SubSeq(s, i + 1, Len(s)), t)
Split(s, t) == SplitAt(s, t, Find(s, t))

\* strings.ReplaceAll for a non-empty old
RECURSIVE ReplaceAll(_, _, _)
ReplaceAt(s, old, new, i) ==
  IF i = -1 THEN s
  ELSE SubSeq(s, 1, i) \o new \o ReplaceAll(SubSeq(s, i + Len(old) + 1, Len(s)), old, new)
ReplaceAll(s, old, new) == ReplaceAt(s, old, new, Index(s, old))

RECURSIVE Concat(_)
Concat(ss) == IF ss = <<>> THEN <<>> ELSE Head(ss) \o Concat(Tail(ss))

\* all strings over alphabet A of length 1..n
RECURSIVE StrUpTo(_, _)
Extend(A, shorter) == {<<c>> : c \in A} \cup shorter \cup {Append(s, c) : s \in shorter, c \in A}
StrUpTo(A, n) == IF n = 0 THEN {} ELSE Extend(A, StrUpTo(A, n - 1))

\* the elements of a finite set of integers, ascending
RECURSIVE SortedSeq(_)
SortedSeq(S) == IF S = {} THEN <<>> ELSE <<Min(S)>> \o SortedSeq(S \ {Min(S)})

\* strings.TrimSpace restricted to the blank token
RECURSIVE TrimSP(_)
TrimSP(s) ==
  IF s = <<>> THEN s
  ELSE IF s[1] = SP THEN TrimSP(Tail(s))
  ELSE IF s[Len(s)] = SP THEN TrimSP(SubSeq(s, 1, Len(s) - 1))
  ELSE s

RECURSIVE StripTrailingNL(_)
StripTrailingNL(s) ==
  IF s # <<>> /\ s[Len(s)] = NL THEN StripTrailingNL(SubSeq(s, 1, Len(s) - 1)) ELSE s

\* ------------------------------------------------------------------ yaml.Marshal
\* How gopkg.in/yaml.v3 writes a Go string (encode.go stringv, emitterc.go
\* analyze_scalar / select_scalar_style), for strings over the model's tokens.
AllDigits(s) == s # <<>> /\ \A i \in 1..Len(s) : s[i] \in Digits

\* the text resolves to a string (not to an int or null) when read back plain
CanUsePlain(s) == s # <<>> /\ ~AllDigits(s)

PlainAllowed(s) ==
  /\ s # <<>>
  /\ s[1] # SP
  /\ s[Len(s)] # SP
  /\ ~HasPrefix(s, <<DASH, DASH, DASH>>)
  /\ ~(s[1] = DASH /\ (Len(s) = 1 \/ s[2] = SP))

BlockAllowed(s) ==
  /\ s[Len(s)] # SP
  /\ \A i \in 1..(Len(s) - 1) : ~(s[i] = SP /\ s[i + 1] = NL)

ChompHeader(s) ==
  IF s[Len(s)] # NL THEN "|-"
  ELSE IF Len(s) = 1 \/ s[Len(s) - 1] = NL THEN "|+"
  ELSE "|"

\* a literal block: header, then every line indented, empty lines bare
EmitLiteral(s) ==
  <<ChompHeader(s), NL>>
  \o Concat([i \in 1..Len(s) |->
       IF s[i] = NL THEN <<NL>>
       ELSE IF i = 1 \/ s[i - 1] = NL THEN <<IND, s[i]>>
       ELSE <<s[i]>>])
  \o (IF s[Len(s)] = NL THEN <<>> ELSE <<NL>>)

EmitDouble(s) ==
  <<DQ>> \o [i \in 1..Len(s) |-> IF s[i] = NL THEN ESCN ELSE s[i]] \o <<DQ, NL>>

\* the text of one scalar, up to and including the line break that ends it
EmitScalar(s) ==
  IF \E i \in 1..Len(s) : s[i] = NL
  THEN IF BlockAllowed(s) THEN EmitLiteral(s) ELSE EmitDouble(s)
  ELSE IF ~CanUsePlain(s) THEN EmitDouble(s)
  ELSE IF PlainAllowed(s) THEN s \o <<NL>>
  ELSE <<SQ>> \o s \o <<SQ, NL>>

EmitKey(k, s) == IF s # <<>> THEN <<k, SP>> \o EmitScalar(s) ELSE <<>>

EmitList(k, xs) ==
  IF Len(xs) > 0
  THEN <<k, NL>> \o Concat([i \in 1..Len(xs) |-> <<ITEM>> \o EmitScalar(xs[i])])
  ELSE <<>>

\* ------------------------------------------------------------------ yaml.Unmarshal
\* A decoded node: kind is "str", "int", "null", "list" or "absent".
Node(kind, s, items) == [err |-> FALSE, kind |-> kind, s |-> s, items |-> items]
NodeErr == [err |-> TRUE, kind |-> "absent", s |-> <<>>, items |-> <<>>]
NodeAbsent == [err |-> FALSE, kind |-> "absent", s |-> <<>>, items |-> <<>>]

IsBlankLine(l) == \A i \in 1..Len(l) : l[i] = SP

Unescape(s) == [i \in 1..Len(s) |-> IF s[i] = ESCN THEN NL ELSE s[i]]

\* a one-line scalar t without surrounding blanks: quoted, or plain and then
\* typed by its text
ParseFlow(t) ==
  IF t = <<>> THEN Node("null", <<>>, <<>>)
  ELSE IF t[1] \in {SQ, DQ} /\ (Len(t) < 2 \/ t[Len(t)] # t[1]) THEN NodeErr
  ELSE IF t[1] = SQ THEN Node("str", SubSeq(t, 2, Len(t) - 1), <<>>)
  ELSE IF t[1] = DQ THEN Node("str", Unescape(SubSeq(t, 2, Len(t) - 1)), <<>>)
  ELSE IF AllDigits(t) THEN Node("int", t, <<>>)
  ELSE Node("str", t, <<>>)

\* the text of a literal block from its content lines; term: the last line is
\* ended by a line break
LitText(cs, term) ==
  Concat([i \in 1..Len(cs) |->
    (IF cs[i] = <<>> THEN <<>> ELSE Tail(cs[i]))
    \o (IF i < Len(cs) \/ term THEN <<NL>> ELSE <<>>)])

\* the chomping of header h applied to text, core being text without its
\* trailing line breaks
Chomp(h, text, core) ==
  IF h = "|+" THEN text
  ELSE IF h = "|" /\ core # <<>> /\ Len(text) > Len(core) THEN Append(core, NL)
  ELSE core

ParseLiteral(h, cs, term) ==
  IF \E i \in 1..Len(cs) : cs[i] # <<>> /\ cs[i][1] # IND THEN NodeErr
  ELSE Node("str", Chomp(h, LitText(cs, term), StripTrailingNL(LitText(cs, term))), <<>>)

\* a scalar given by the rest t of its first line (blanks trimmed) and the
\* lines cs after it
ParseTrimmed(t, cs, term) ==
  IF t # <<>> /\ t[1] \in BlockHeaders
  THEN IF Len(t) = 1 THEN ParseLiteral(t[1], cs, term) ELSE NodeErr
  ELSE IF \A i \in 1..Len(cs) : IsBlankLine(cs[i]) THEN ParseFlow(t)
  ELSE NodeErr

ParseScalar(r, cs, term) == ParseTrimmed(TrimSP(r), cs, term)

\* the last line of the n-th group, when the groups start at the lines idx
GroupEnd(idx, n, len) == IF n < Len(idx) THEN idx[n + 1] - 1 ELSE len

ListNode(items) ==
  IF \E n \in 1..Len(items) : items[n].err THEN NodeErr
  ELSE Node("list", <<>>, [n \in 1..Len(items) |-> [kind |-> items[n].kind, s |-> items[n].s]])

\* a block sequence: the items start at the lines idx of cs
ParseItems(cs, term, idx) ==
  IF \E j \in 1..(idx[1] - 1) : ~IsBlankLine(cs[j]) THEN NodeErr
  ELSE ListNode([n \in 1..Len(idx) |->
         ParseScalar(Tail(cs[idx[n]]),
                     SubSeq(cs, idx[n] + 1, GroupEnd(idx, n, Len(cs))),
                     n < Len(idx) \/ term)])

\* the value of a mapping key: a scalar, or a block sequence of scalars
ParseValue(r, cs, term) ==
  IF ~IsBlankLine(r) \/ \A j \in 1..Len(cs) : cs[j] = <<>> \/ cs[j][1] \notin ItemTokens
  THEN ParseScalar(r, cs, term)
  ELSE ParseItems(cs, term, SortedSeq({j \in 1..Len(cs) : cs[j] # <<>> /\ cs[j][1] \in ItemTokens}))

YamlErr == [err |-> TRUE, keys |-> <<>>, vals |-> <<>>]

YamlMap(keys, vals) ==
  IF \E m, n \in 1..Len(keys) : m # n /\ keys[m] = keys[n] THEN YamlErr
  ELSE IF \E n \in 1..Len(vals) : vals[n].err THEN YamlErr
  ELSE [err |-> FALSE, keys |-> keys, vals |-> vals]

\* a block mapping: the keys start at the lines idx
ParseEntries(lines, term, idx) ==
  IF \E j \in 1..(IF idx = <<>> THEN Len(lines) ELSE idx[1] - 1) : ~IsBlankLine(lines[j])
  THEN YamlErr
  ELSE YamlMap([n \in 1..Len(idx) |-> lines[idx[n]][1]],
               [n \in 1..Len(idx) |->
                  ParseValue(Tail(lines[idx[n]]),
                             SubSeq(lines, idx[n] + 1, GroupEnd(idx, n, Len(lines))),
                             n < Len(idx) \/ term)])

ParseLines(lines, term) ==
  ParseEntries(lines, term,
               SortedSeq({i \in 1..Len(lines) : lines[i] # <<>> /\ lines[i][1] \in KeyTokens}))

\* the lines of a text; the empty piece after a final line break is no line
LinesOf(split, term) == IF term THEN SubSeq(split, 1, Len(split) - 1) ELSE split

Terminated(fm) == fm = <<>> \/ fm[Len(fm)] = NL

\* yaml.Unmarshal into map[string]interface{}: [err, keys, vals]
ParseYaml(fm) == ParseLines(LinesOf(Split(fm, NL), Terminated(fm)), Terminated(fm))

\* metadata[k]
Lookup(md, k) ==
  IF \E n \in 1..Len(md.keys) : md.keys[n] = k
  THEN md.vals[CHOOSE n \in 1..Len(md.keys) : md.keys[n] = k]
  ELSE NodeAbsent

RECURSIVE StrItems(_)
StrItems(items) ==
  IF items = <<>> THEN <<>>
  ELSE (IF Head(items).kind = "str" THEN <<Head(items).s>> ELSE <<>>) \o StrItems(Tail(items))

\* node.([]interface{}) with the string elements kept
ListOf(node) == IF node.kind = "list" THEN StrItems(node.items) ELSE <<>>

\* node.(string)
StrOf(node) == IF node.kind = "str" THEN node.s ELSE <<>>

\* ------------------------------------------------------------------ paths
\* A path is a sequence of components, relative to the vault root; a component
\* is a string.  The file extension ".md" is one token.
MD == ".md"
Dot == <<".">>

\* filepath.Base
Base(path) == path[Len(path)]

\* strings.TrimSuffix
TrimSuffix(s, suf) == IF HasSuffix(s, suf) THEN SubSeq(s, 1, Len(s) - Len(suf)) ELSE s

\* filepath.Dir of a path relative to the vault: "." for a file in the root
Dir(path) == IF Len(path) <= 1 THEN <<Dot>> ELSE SubSeq(path, 1, Len(path) - 1)

\* filepath.Clean on a list of components
RECURSIVE CleanAcc(_, _)
CleanAcc(acc, rest) ==
  IF rest = <<>> THEN acc
  ELSE IF Head(rest) = <<>> \/ Head(rest) = Dot THEN CleanAcc(acc, Tail(rest))
  ELSE IF Head(rest) = <<"..">> /\ acc # <<>> /\ acc[Len(acc)] # <<"..">>
       THEN CleanAcc(SubSeq(acc, 1, Len(acc) - 1), Tail(rest))
  ELSE CleanAcc(Append(acc, Head(rest)), Tail(rest))

\* filepath.Join(base, s): s is split at the separator and the result cleaned
JoinPath(base, s) == CleanAcc(<<>>, base \o Split(s, SLASH))

\* a directory and all its ancestors, the vault root included
Prefixes(path) == {SubSeq(path, 1, n) : n \in 0..Len(path)}

\* os.MkdirAll succeeds unless a component of the path is a file
MkdirAllOk(f, path) == \A q \in Prefixes(path) : q \notin DOMAIN f

\* os.WriteFile succeeds when the parent directory exists and the name is not
\* a directory
WriteOk(d, path) == path # <<>> /\ SubSeq(path, 1, Len(path) - 1) \in d /\ path \notin d

WriteFile(f, path, data) == [q \in DOMAIN f \cup {path} |-> IF q = path THEN data ELSE f[q]]

\* ------------------------------------------------------------------ obsidian.Page
NewPage(path) ==
  [Title |-> <<>>, Folder |-> <<>>, Tags |-> <<>>, Aliases |-> <<>>, Url |-> <<>>,
   UrlAliases |-> <<>>, WebBadgeColor |-> <<>>, WebMessage |-> <<>>,
   FilePath |-> path, Content |-> <<>>]

\* the result of a call that returns (*Page, error)
PageOk(p) == [err |-> FALSE, page |-> p]
PageErr == [err |-> TRUE, page |-> NewPage(<<>>)]

\* title and folder from the file name (Vault.go:150-159)
Named(filePath, content) ==
  [NewPage(filePath) EXCEPT
     !.Title = TrimSuffix(Base(filePath), <<MD>>),
     !.Folder = Dir(filePath),
     !.Content = content]

\* the metadata fields taken from the decoded front matter (Vault.go:104-143)
loadMetadata(filePath, content, metadata) ==
  IF metadata.err THEN PageErr
  ELSE PageOk([Named(filePath, content) EXCEPT
         !.Tags = ListOf(Lookup(metadata, "tags:")),
         !.Aliases = ListOf(Lookup(metadata, "aliases:")),
         !.Url = StrOf(Lookup(metadata, "url:")),
         !.UrlAliases = ListOf(Lookup(metadata, "url-aliases:")),
         !.WebBadgeColor = StrOf(Lookup(metadata, "web-badge-color:")),
         !.WebMessage = StrOf(Lookup(metadata, "web-message:"))])

\* the front matter ends at endIdx, counted from the fifth byte (Vault.go:96-100)
loadFrontmatter(filePath, contentStr, endIdx) ==
  IF endIdx # -1
  THEN loadMetadata(filePath, SubSeq(contentStr, endIdx + 9, Len(contentStr)),
                    ParseYaml(SubSeq(contentStr, 5, endIdx + 4)))
  ELSE PageOk(Named(filePath, <<>>))

\* loadPage applied to the bytes read from filePath
loadPage(filePath, contentStr) ==
  IF HasPrefix(contentStr, DELIM)
  THEN loadFrontmatter(filePath, contentStr, Index(SubSeq(contentStr, 5, Len(contentStr)), DELIM))
  ELSE PageOk(Named(filePath, contentStr))

\* yaml.Marshal of the metadata map Page.Save builds: the keys that have a
\* value, in sorted key order
MarshalMetadata(page) ==
  EmitList("aliases:", page.Aliases)
  \o EmitList("tags:", page.Tags)
  \o EmitKey("url:", page.Url)
  \o EmitList("url-aliases:", page.UrlAliases)
  \o EmitKey("web-badge-color:", page.WebBadgeColor)
  \o EmitKey("web-message:", page.WebMessage)

\* front matter between delimiters if there is any, then the content
Frame(yamlData, content) ==
  (IF yamlData # <<>> THEN DELIM \o yamlData \o DELIM ELSE <<>>) \o content

\* the bytes Page.Save writes to page.FilePath
SaveBytes(page) == Frame(MarshalMetadata(page), page.Content)

\* ------------------------------------------------------------------ sync: matching
TITLE == "{{title}}"
\* "https://fetlife.com/users/"
UrlPrefix == <<"https://fetlife.com", SLASH, "users", SLASH>>
UrlLine == <<"url:", SP>> \o UrlPrefix

\* a variant of the test with its suffix part alone
UrlMatchesSuffixOnly(url, userID) == HasSuffix(url, <<SLASH>> \o userID)

\* the two-part test of findPageByUserID on one URL
UrlMatches(url, userID) ==
  StrContains(url, <<SLASH, "users", SLASH>> \o userID) \/ HasSuffix(url, <<SLASH>> \o userID)

\* a variant of the alias loop without its break: one append per matching alias
RECURSIVE AliasAppendsNoBreak(_, _)
AliasAppendsNoBreak(aliases, userID) ==
  IF aliases = <<>> THEN 0
  ELSE (IF UrlMatches(Head(aliases), userID) THEN 1 ELSE 0)
       + AliasAppendsNoBreak(Tail(aliases), userID)

\* the alias loop of findPageByUserID: the number of appends it makes for one
\* page (it breaks at the first matching alias)
RECURSIVE AliasAppends(_, _)
AliasAppends(aliases, userID) ==
  IF aliases = <<>> THEN 0
  ELSE IF UrlMatches(Head(aliases), userID) THEN 1
  ELSE AliasAppends(Tail(aliases), userID)

\* one iteration of the page loop: what it appends for the page at position i
\* (the main URL first, and then "continue"; the aliases otherwise)
PageAppends(page, i, userID) ==
  IF UrlMatches(page.Url, userID) THEN <<i>>
  ELSE [k \in 1..AliasAppends(page.UrlAliases, userID) |-> i]

\* the page loop of findPageByUserID from position i on
RECURSIVE findFrom(_, _, _)
findFrom(pgs, i, userID) ==
  IF i > Len(pgs) THEN <<>>
  ELSE PageAppends(pgs[i], i, userID) \o findFrom(pgs, i + 1, userID)

\* findPageByUserID: the matches, as positions in vault.Pages
findPageByUserID(pgs, userID) == findFrom(pgs, 1, userID)

\* ------------------------------------------------------------------ sync: folder rules
\* strings.ToLower; "A" is the upper-case character of the model
ToLower(s) == [i \in 1..Len(s) |-> IF s[i] = "A" THEN "a" ELSE s[i]]

\* strings.SplitN(config, ":", 2), the separator being at position i
SplitFirstAt(s, i) ==
  IF i = 0 THEN <<s>> ELSE <<SubSeq(s, 1, i - 1), SubSeq(s, i + 1, Len(s))>>

SplitFirst(s, t) == SplitFirstAt(s, Find(s, t))

\* a variant that keeps the case of the keywords
RECURSIVE KeywordsKeepCase(_)
KeywordsKeepCase(parts) ==
  IF parts = <<>> THEN <<>>
  ELSE (IF TrimSP(Head(parts)) # <<>> THEN <<TrimSP(Head(parts))>> ELSE <<>>)
       \o KeywordsKeepCase(Tail(parts))
RECURSIVE Keywords(_)
Keywords(parts) ==
  IF parts = <<>> THEN <<>>
  ELSE (IF TrimSP(Head(parts)) # <<>> THEN <<ToLower(TrimSP(Head(parts)))>> ELSE <<>>)
       \o Keywords(Tail(parts))

FolderRule(parts) ==
  [folder |-> parts[1],
   keywords |-> IF Len(parts) = 2 /\ parts[2] # <<>> THEN Keywords(Split(parts[2], ",")) ELSE <<>>]

parseFolderConfig(config) == FolderRule(SplitFirst(config, ":"))

AnyKeyword(kws, lowerNote) == \E k \in 1..Len(kws) : StrContains(lowerNote, kws[k])

\* a variant in which the last rule with a keyword in the note wins
LastMatch(rules, lowerNote) ==
  rules[IF \A i \in 1..Len(rules) : ~AnyKeyword(rules[i].keywords, lowerNote) THEN 1
        ELSE CHOOSE i \in 1..Len(rules) :
               /\ AnyKeyword(rules[i].keywords, lowerNote)
               /\ \A j \in (i + 1)..Len(rules) : ~AnyKeyword(rules[j].keywords, lowerNote)].folder
\* the folder of the first rule with a keyword in the note, else of the first rule
FirstMatch(rules, lowerNote) ==
  rules[MinOr({i \in 1..Len(rules) : AnyKeyword(rules[i].keywords, lowerNote)}, 1)].folder

\* a variant that falls back to "People" for an empty note
determineFolderEmptyNote(createPeopleIn, privateNote) ==
  IF Len(createPeopleIn) = 0 \/ privateNote = <<>> THEN <<"People">>
  ELSE FirstMatch([i \in 1..Len(createPeopleIn) |-> parseFolderConfig(createPeopleIn[i])],
                  ToLower(privateNote))
determineFolderForUser(createPeopleIn, privateNote) ==
  IF Len(createPeopleIn) = 0 THEN <<"People">>
  ELSE IF privateNote # <<>>
  THEN FirstMatch([i \in 1..Len(createPeopleIn) |-> parseFolderConfig(createPeopleIn[i])],
                  ToLower(privateNote))
  ELSE parseFolderConfig(createPeopleIn[1]).folder

\* ------------------------------------------------------------------ sync: synthesis
TemplatePath == << <<"Templates">>, <<"People", MD>> >>

\* the built-in template of createPageInFolder (sync.go:371-378)
DefaultTemplate(userID) ==
  DELIM \o <<"tags:", NL, ITEM2, "person", NL>> \o UrlLine \o userID \o <<NL>>
  \o DELIM \o <<NL, "# Notes", NL>>

PageName(userID, nickname) == IF nickname = <<>> THEN <<"user-">> \o userID ELSE nickname

\* the template with the title and the profile URL filled in (sync.go:366-385)
FillTemplate(f, userID, pageName) ==
  ReplaceAll(ReplaceAll(IF TemplatePath \in DOMAIN f THEN f[TemplatePath]
                        ELSE DefaultTemplate(userID),
                        <<TITLE>>, pageName),
             UrlLine, UrlLine \o userID)

\* what createPageInFolder returns and leaves behind: the error, whether a
\* system call was failed by the environment, vault.Pages, the files, the
\* directories, and the position of the new page in vault.Pages
Created(err, iofault, pgs, f, d, idx) ==
  [err |-> err, iofault |-> iofault, pages |-> pgs, fs |-> f, dirs |-> d, idx |-> idx]

\* a variant that adds a new, empty page of that path instead of the file
\* as it is read again
createLoadedBlank(pgs, f, d, loaded) ==
  IF loaded.err THEN Created(TRUE, FALSE, pgs, f, d, 0)
  ELSE Created(FALSE, FALSE, Append(pgs, NewPage(loaded.page.FilePath)), f, d, Len(pgs) + 1)

\* vault.LoadPage of the file just written, appended to vault.Pages (sync.go:393-399)
createLoaded(pgs, f, d, loaded) ==
  IF loaded.err THEN Created(TRUE, FALSE, pgs, f, d, 0)
  ELSE Created(FALSE, FALSE, Append(pgs, loaded.page), f, d, Len(pgs) + 1)

\* os.MkdirAll, os.WriteFile, LoadPage (sync.go:358-393); io names the system
\* call the environment fails, if any
createFile(pgs, f, d, io, folderPath, filePath, content) ==
  IF io = "mkdir" \/ ~MkdirAllOk(f, folderPath) THEN Created(TRUE, io = "mkdir", pgs, f, d, 0)
  ELSE IF io = "write" \/ ~WriteOk(d \cup Prefixes(folderPath), filePath)
  THEN Created(TRUE, io = "write", pgs, f, d \cup Prefixes(folderPath), 0)
  ELSE createLoaded(pgs, WriteFile(f, filePath, content), d \cup Prefixes(folderPath),
                    loadPage(filePath, content))

createPageInFolder(pgs, f, d, userID, nickname, folder, io) ==
  createFile(pgs, f, d, io, JoinPath(<<>>, folder),
             JoinPath(JoinPath(<<>>, folder), PageName(userID, nickname) \o <<MD>>),
             FillTemplate(f, userID, PageName(userID, nickname)))

\* ------------------------------------------------------------------ sync: one record
\* a variant that tells ambiguity only from the third match on
AmbiguousFromThree(n) == n > 2
\* more than one match: the record is skipped (sync.go:184, 250)
Ambiguous(n) == n > 1

\* a variant that never finds the tag
HasBlockedTagNever(tags) == FALSE
HasBlockedTag(tags) == \E i \in 1..Len(tags) : tags[i] = <<"blocked">>

\* the tag list after the "blocked" tag is ensured (sync.go:213-223)
EnsureBlockedTag(tags) == IF ~HasBlockedTag(tags) THEN Append(tags, <<"blocked">>) ELSE tags

\* a variant that sets the message whether or not there is one
BlockedMessageAlways(msg, createdAt) == <<"Blocked", SP, "on", SP>> \o createdAt
\* the web-message after a blocked record (sync.go:227-229)
BlockedMessage(msg, createdAt) ==
  IF msg = <<>> THEN <<"Blocked", SP, "on", SP>> \o createdAt ELSE msg

\* what processing one record leaves behind
\*   outcome: "skipped" (ambiguous), "error", or "ok"
\*   created: a page was synthesized;  idx: the page used, 0 if none
\*   before: that page before its fields were updated
Outcome(pgs, f, d, err, outcome, created, idx, before, nmatch, iofault) ==
  [pages |-> pgs, fs |-> f, dirs |-> d, err |-> err, outcome |-> outcome,
   created |-> created, idx |-> idx, before |-> before, nmatch |-> nmatch,
   iofault |-> iofault]

\* page.Save on the updated page, then the return of the record's handler
SaveAndReturn(c, updated, nmatch, io) ==
  IF io = "save" \/ ~WriteOk(c.dirs, updated.FilePath)
  THEN Outcome([c.pages EXCEPT ![c.idx] = updated], c.fs, c.dirs, TRUE, "error",
               nmatch = 0, c.idx, c.pages[c.idx], nmatch, c.iofault \/ io = "save")
  ELSE Outcome([c.pages EXCEPT ![c.idx] = updated],
               WriteFile(c.fs, updated.FilePath, SaveBytes(updated)), c.dirs, FALSE, "ok",
               nmatch = 0, c.idx, c.pages[c.idx], nmatch, c.iofault)

\* the page a record works on when it is the single match
Existing(pgs, f, d, idx) == Created(FALSE, FALSE, pgs, f, d, idx)

\* the fields processBlocked sets (sync.go:213-229)
blockedUpdate(page, blocked) ==
  [page EXCEPT !.Tags = EnsureBlockedTag(page.Tags),
               !.WebMessage = BlockedMessage(page.WebMessage, blocked.CreatedAt)]

\* a variant that keeps a message that is there
noteUpdateIfEmpty(page, note) ==
  [page EXCEPT !.WebMessage = IF page.WebMessage = <<>> THEN note.PrivateNote
                              ELSE page.WebMessage]

\* the field processPrivateNote sets (sync.go:278)
noteUpdate(page, note) == [page EXCEPT !.WebMessage = note.PrivateNote]

\* processBlocked once the page c to work on is found or created
blockedOn(c, blocked, nmatch, io) ==
  IF c.err
  THEN Outcome(c.pages, c.fs, c.dirs, TRUE, "error", FALSE, 0, NewPage(<<>>), nmatch, c.iofault)
  ELSE SaveAndReturn(c, blockedUpdate(c.pages[c.idx], blocked), nmatch, io)

blockedMatched(pgs, f, d, blocked, createBlockedIn, io, matches) ==
  IF Ambiguous(Len(matches))
  THEN Outcome(pgs, f, d, FALSE, "skipped", FALSE, 0, NewPage(<<>>), Len(matches), FALSE)
  ELSE blockedOn(IF Len(matches) = 0
                 THEN createPageInFolder(pgs, f, d, blocked.UserID, blocked.Nickname,
                                         createBlockedIn, io)
                 ELSE Existing(pgs, f, d, matches[1]),
                 blocked, Len(matches), io)

processBlocked(pgs, f, d, blocked, createBlockedIn, io) ==
  blockedMatched(pgs, f, d, blocked, createBlockedIn, io, findPageByUserID(pgs, blocked.UserID))

\* processPrivateNote once the page c to work on is found or created
noteOn(c, note, nmatch, io) ==
  IF c.err
  THEN Outcome(c.pages, c.fs, c.dirs, TRUE, "error", FALSE, 0, NewPage(<<>>), nmatch, c.iofault)
  ELSE SaveAndReturn(c, noteUpdate(c.pages[c.idx], note), nmatch, io)

noteMatched(pgs, f, d, note, createPeopleIn, io, matches) ==
  IF Ambiguous(Len(matches))
  THEN Outcome(pgs, f, d, FALSE, "skipped", FALSE, 0, NewPage(<<>>), Len(matches), FALSE)
  ELSE noteOn(IF Len(matches) = 0
              THEN createPageInFolder(pgs, f, d, note.MemberID, <<>>,
                                      determineFolderForUser(createPeopleIn, note.PrivateNote), io)
              ELSE Existing(pgs, f, d, matches[1]),
              note, Len(matches), io)

processPrivateNote(pgs, f, d, note, createPeopleIn, io) ==
  noteMatched(pgs, f, d, note, createPeopleIn, io, findPageByUserID(pgs, note.MemberID))

\* ------------------------------------------------------------------ vault.Load
\* filepath.WalkDir visits names in lexical order; the tokens that occur in
\* file names, in byte order
NameOrder ==
  <<".md", "1", "2", "4", "5", "Al", "Alice", "Bad People", "Bob", "Broken", "Friends",
    "People", "Templates", "old", "user-", "x", "y">>

Rank(tok) == MinOr({i \in 1..Len(NameOrder) : NameOrder[i] = tok}, 0)

RECURSIVE NameLess(_, _)
NameLess(s, t) ==
  IF t = <<>> THEN FALSE
  ELSE IF s = <<>> THEN TRUE
  ELSE IF Head(s) = Head(t) THEN NameLess(Tail(s), Tail(t))
  ELSE Rank(Head(s)) < Rank(Head(t))

RECURSIVE PathLess(_, _)
PathLess(p, q) ==
  IF q = <<>> THEN FALSE
  ELSE IF p = <<>> THEN TRUE
  ELSE IF Head(p) = Head(q) THEN PathLess(Tail(p), Tail(q))
  ELSE NameLess(Head(p), Head(q))

RECURSIVE WalkOrder(_)
WalkFrom(S, first) == <<first>> \o WalkOrder(S \ {first})
WalkOrder(S) ==
  IF S = {} THEN <<>>
  ELSE WalkFrom(S, CHOOSE p \in S : \A q \in S \ {p} : PathLess(p, q))

\* the walk stops at the first page that fails to load
Loaded(results) ==
  [err |-> \E i \in 1..Len(results) : results[i].err,
   pages |-> [i \in 1..Len(results) |-> results[i].page]]

LoadFiles(f, md) == Loaded([i \in 1..Len(md) |-> loadPage(md[i], f[md[i]])])

\* Vault.Load: every file whose name ends in ".md", loaded in walk order
VaultLoad(f) == LoadFiles(f, WalkOrder({p \in DOMAIN f : HasSuffix(Base(p), <<MD>>)}))

\* ------------------------------------------------------------------ the data files
\* csv.Reader.ReadAll: every record must have as many fields as the first one
CsvReadAll(txt) ==
  [err |-> ~txt.exists \/ \E i \in 1..Len(txt.rows) : Len(txt.rows[i]) # Len(txt.rows[1]),
   records |-> txt.rows]

\* the records after the header that have at least four fields
RECURSIVE DataRows(_, _)
DataRows(rows, i) ==
  IF i > Len(rows) THEN <<>>
  ELSE (IF i = 1 \/ Len(rows[i]) < 4 THEN <<>> ELSE <<rows[i]>>) \o DataRows(rows, i + 1)

BlockedRecords(rows) ==
  [i \in 1..Len(rows) |->
     [UserID |-> rows[i][1], CreatedAt |-> rows[i][2], UpdatedAt |-> rows[i][3],
      Nickname |-> rows[i][4]]]

NoteRecords(rows) ==
  [i \in 1..Len(rows) |->
     [MemberID |-> rows[i][1], CreatedAt |-> rows[i][2], UpdatedAt |-> rows[i][3],
      PrivateNote |-> rows[i][4]]]

readBlockeds(txt) ==
  [err |-> CsvReadAll(txt).err, records |-> BlockedRecords(DataRows(CsvReadAll(txt).records, 1))]

readPrivateNotes(txt) ==
  [err |-> CsvReadAll(txt).err, records |-> NoteRecords(DataRows(CsvReadAll(txt).records, 1))]

\* ------------------------------------------------------------------ inputs
\* The vaults, data files and flags a run starts from, and the pages and file
\* contents of the page specification.
\* most records in the two data files together
MaxRecords == 3
\* most system calls the environment fails while records are processed
MaxIOFailures == 1

SeqsUpTo(S, n) == UNION {[1..k -> S] : k \in 0..n}

FsOf(files) == [p \in {f[1] : f \in files} |-> (CHOOSE f \in files : f[1] = p)[2]]

DirsOf(f) == {<<>>} \cup UNION {Prefixes(SubSeq(p, 1, Len(p) - 1)) : p \in DOMAIN f}

BodyNotes == <<NL, "# Notes", NL>>
TagsPerson == <<"tags:", NL, ITEM2, "person", NL>>

\* Templates/People.md as the tests write it
TplGood == DELIM \o TagsPerson \o UrlLine \o <<NL>> \o DELIM \o BodyNotes
\* a template without the url line, with the title placeholder in its body
TplNoUrl == DELIM \o TagsPerson \o DELIM \o <<TITLE, NL>>
\* a front-matter line with a key that Page has no field for
CustomLine == <<"custom:", SP, "a", NL>>
\* a template that already carries the blocked tag and a message, and a
\* field of the user's own
TplMsg ==
  DELIM \o TagsPerson \o <<ITEM2, "blocked", NL>> \o UrlLine
  \o <<NL, "web-message:", SP, "a", NL>> \o CustomLine \o DELIM \o BodyNotes

\* hand-written pages of the vault
Alice12 ==
  << << <<"People">>, <<"Alice", MD>> >>,
     DELIM \o TagsPerson \o UrlLine \o <<"1", "2", NL>> \o DELIM \o <<"a", NL>> >>
Al12 ==
  << << <<"People">>, <<"Al", MD>> >>,
     DELIM \o <<"url-aliases:", NL, ITEM2>> \o UrlPrefix \o <<"1", "2", NL>> \o DELIM >>
Old45 ==
  << << <<"Bad People">>, <<"x">>, <<"old", MD>> >>,
     DELIM \o <<"tags:", NL, ITEM2, "blocked", NL>> \o UrlLine
     \o <<"4", "5", NL, "web-message:", SP, "a", NL>> \o DELIM \o <<"b">> >>
\* a hand-written page that has no front matter
HandBob == << << <<"Bad People">>, <<"Bob", MD>> >>, <<"a", NL>> >>
Broken == << << <<"Broken", MD>> >>, DELIM \o <<"a", NL>> \o DELIM >>

VaultScenarios ==
  {FsOf(files) : files \in
     {{},
      {<<TemplatePath, TplGood>>, Alice12},
      {<<TemplatePath, TplGood>>, Alice12, Al12},
      {<<TemplatePath, TplMsg>>, Old45, HandBob},
      {<<TemplatePath, TplNoUrl>>},
      {Alice12, Old45},
      {<<TemplatePath, TplGood>>, Broken}}}

Header == << <<"id">>, <<"created_at">>, <<"updated_at">>, <<"text">> >>

\* rows of blockeds.txt: user_id, created_at, updated_at, nickname
BlockedPool ==
  { << <<"1", "2">>, <<"D">>, <<"D">>, <<"Bob">> >>,
    << <<"5">>, <<>>, <<"D">>, <<>> >>,
    << <<"1">>, <<"D">>, <<"D">>, <<"x", SLASH, "y">> >> }

\* rows of private_notes.txt: member_id, created_at, updated_at, private_note
NotePool ==
  { << <<"1", "2">>, <<"D">>, <<"D">>, <<"A">> >>,
    << <<"5">>, <<"D">>, <<"D">>, <<"a", DASH, DASH, DASH>> >>,
    << <<"1">>, <<"D">>, <<"D">>, <<>> >> }

Configs ==
  { [CreatePeopleIn |-> << <<"People">> >>, CreateBlockedIn |-> <<"Bad People">>],
    [CreatePeopleIn |-> << <<"People">>, <<"Friends", ":", SP, "a", ",", "b">> >>,
     CreateBlockedIn |-> <<"Bad People">>] }


\* values and raw texts of the page specification
Values == StrUpTo({"a", DASH, NL}, MaxLen)
\* a body that itself opens with a metadata block
BlockBodies == {DELIM \o <<"url:", SP, "a", NL>> \o DELIM \o <<"a", NL>>}
FieldNames == {"tags", "aliases", "url", "url-aliases", "web-badge-color", "web-message", "body"}
PageFile == << <<"p", MD>> >>

\* the scalar field k of a document that has value v in field f
ScalarOf(f, v, full, k) == IF f = k THEN v ELSE IF full THEN <<"a">> ELSE <<>>

\* the list field k of a document that has value v in field f
ListOfDoc(f, v, full, k) ==
  IF f = k THEN (IF full THEN <<v, <<"b">>>> ELSE <<v>>)
  ELSE IF full THEN << <<"a">>, <<"b">> >> ELSE <<>>

\* a document with value v in field f; the other fields filled or empty
Doc(f, v, full) ==
  [Title |-> <<"p">>, Folder |-> <<Dot>>, FilePath |-> PageFile,
   Tags |-> ListOfDoc(f, v, full, "tags"),
   Aliases |-> ListOfDoc(f, v, full, "aliases"),
   Url |-> ScalarOf(f, v, full, "url"),
   UrlAliases |-> ListOfDoc(f, v, full, "url-aliases"),
   WebBadgeColor |-> ScalarOf(f, v, full, "web-badge-color"),
   WebMessage |-> ScalarOf(f, v, full, "web-message"),
   Content |-> IF f = "body" THEN v ELSE <<"a", NL>>]

\* file contents: an optional opening delimiter and metadata line, any text,
\* an optional closing delimiter and tail
RawFiles ==
  {h \o v \o t :
     h \in {<<>>, DELIM, DELIM \o <<"url:", SP, "a", NL>>},
     v \in Values \cup {<<>>},
     t \in {<<>>, DELIM, DELIM \o <<"a">>}}

\* ------------------------------------------------------------------ state
VARIABLES
  fs,            \* the files under the vault root: path -> bytes
  dirs,          \* the directories under the vault root
  blockedsTxt,   \* blockeds.txt: [exists, rows]
  notesTxt,      \* private_notes.txt: [exists, rows]
  cfg,           \* the SyncCmd flags
  pages,         \* vault.Pages
  blockeds,      \* Run's local blockeds
  privateNotes,  \* Run's local privateNotes
  pc,            \* where Run is
  bi,            \* next blocked record
  ni,            \* next note record
  ret,           \* what Run returned: "none" (running), "nil", "err"
  fails,         \* system calls failed so far
  log,           \* per record handled so far: what its handler did
  last,          \* the last record handled and the vault before it
  fs0,           \* the files when Run started
  mem,           \* page specification: the Page in memory
  disk,          \* page specification: the file
  ops,           \* page specification: operations applied
  mem0,          \* page specification: the Page at the start
  disk0,         \* page specification: the file at the start
  call           \* function specification: the last call and what it returned

syncVars == <<fs, dirs, blockedsTxt, notesTxt, cfg, pages, blockeds, privateNotes, pc, bi, ni,
              ret, fails, log, last, fs0>>
pageVars == <<mem, disk, ops, mem0, disk0>>
vars == <<syncVars, pageVars, call>>

NoLast ==
  [kind |-> "none",
   rec |-> [UserID |-> <<>>, CreatedAt |-> <<>>, Nickname |-> <<>>, PrivateNote |-> <<>>], folder |-> <<>>,
   res |-> Outcome(<<>>, <<>>, {}, FALSE, "none", FALSE, 0, NewPage(<<>>), 0, FALSE),
   pagesBefore |-> <<>>, fsBefore |-> <<>>, dirsBefore |-> {}]

NoMem == [st |-> "none", page |-> NewPage(<<>>)]
NoDisk == [exists |-> FALSE, data |-> <<>>]
NoCall == [op |-> "none"]

\* ------------------------------------------------------------------ SyncCmd.Run
\* a variant that processes the blocked records before the notes are read
RunOrderEager == <<"load", "readBlockeds", "blocked", "readNotes", "notes">>
\* the stages of Run in program order (sync.go:40-79)
RunOrder == <<"load", "readBlockeds", "readNotes", "blocked", "notes">>

StageAfter(i) == IF i = Len(RunOrder) THEN "return" ELSE RunOrder[i + 1]

NextStage(stage) == StageAfter(CHOOSE j \in 1..Len(RunOrder) : RunOrder[j] = stage)

\* a variant that returns the first record error
LoopStops(err) == ~err
\* "Continue processing other records" (sync.go:67-70, 75-78)
LoopContinues(err) == TRUE

IOChoices == {"none", "mkdir", "write", "save"}

InitSync ==
  /\ \E v \in VaultScenarios, c \in Configs,
        bs \in SeqsUpTo(BlockedPool, MaxRecords), ns \in SeqsUpTo(NotePool, MaxRecords),
        missing \in {"none", "blockeds", "notes"} :
       /\ Len(bs) + Len(ns) <= MaxRecords
       /\ missing = "blockeds" => bs = <<>> /\ ns = <<>>
       /\ missing = "notes" => ns = <<>>
       /\ fs = v
       /\ cfg = c
       /\ blockedsTxt = [exists |-> missing # "blockeds", rows |-> <<Header>> \o bs]
       /\ notesTxt = [exists |-> missing # "notes", rows |-> <<Header>> \o ns]
  /\ dirs = DirsOf(fs)
  /\ fs0 = fs
  /\ pages = <<>>
  /\ blockeds = <<>>
  /\ privateNotes = <<>>
  /\ pc = RunOrder[1]
  /\ bi = 1
  /\ ni = 1
  /\ ret = "none"
  /\ fails = 0
  /\ log = <<>>
  /\ last = NoLast
  /\ mem = NoMem /\ disk = NoDisk /\ ops = <<>> /\ mem0 = NoMem /\ disk0 = NoDisk
  /\ call = NoCall

Abort == pc' = "done" /\ ret' = "err"

Proceed == pc' = NextStage(pc) /\ ret' = ret

\* vault.Load (sync.go:41-45); the walk itself can fail
Load ==
  /\ pc = "load"
  /\ \E walkOk \in BOOLEAN, r \in {VaultLoad(fs)} :
       IF walkOk /\ ~r.err THEN pages' = r.pages /\ Proceed ELSE pages' = pages /\ Abort
  /\ UNCHANGED <<fs, dirs, blockedsTxt, notesTxt, cfg, blockeds, privateNotes, bi, ni, fails,
                 log, last, fs0, pageVars, call>>

\* sync.readBlockeds (sync.go:50-54)
ReadBlockeds ==
  /\ pc = "readBlockeds"
  /\ \E r \in {readBlockeds(blockedsTxt)} :
       IF r.err THEN blockeds' = blockeds /\ Abort ELSE blockeds' = r.records /\ Proceed
  /\ UNCHANGED <<fs, dirs, blockedsTxt, notesTxt, cfg, pages, privateNotes, bi, ni, fails,
                 log, last, fs0, pageVars, call>>

\* sync.readPrivateNotes (sync.go:58-62)
ReadPrivateNotes ==
  /\ pc = "readNotes"
  /\ \E r \in {readPrivateNotes(notesTxt)} :
       IF r.err THEN privateNotes' = privateNotes /\ Abort
       ELSE privateNotes' = r.records /\ Proceed
  /\ UNCHANGED <<fs, dirs, blockedsTxt, notesTxt, cfg, pages, blockeds, bi, ni, fails,
                 log, last, fs0, pageVars, call>>

\* the effect of one handler call on the vault, and the loop's reaction
Handled(kind, rec, folder, res) ==
  /\ pages' = res.pages
  /\ fs' = res.fs
  /\ dirs' = res.dirs
  /\ fails' = IF res.iofault THEN fails + 1 ELSE fails
  /\ log' = Append(log, [kind |-> kind, id |-> rec.UserID, outcome |-> res.outcome,
                         nmatch |-> res.nmatch, iofault |-> res.iofault,
                         created |-> res.created, idx |-> res.idx])
  /\ last' = [kind |-> kind, rec |-> rec, folder |-> folder, res |-> res,
              pagesBefore |-> pages, fsBefore |-> fs, dirsBefore |-> dirs]
  /\ IF LoopContinues(res.err) THEN pc' = pc /\ ret' = ret ELSE Abort

\* one iteration of "for _, blocked := range blockeds" (sync.go:66-71)
ProcessBlocked ==
  /\ pc = "blocked"
  /\ bi <= Len(blockeds)
  /\ \E io \in IOChoices :
       /\ io # "none" => fails < MaxIOFailures
       /\ Handled("blocked",
                  [UserID |-> blockeds[bi].UserID, CreatedAt |-> blockeds[bi].CreatedAt,
                   Nickname |-> blockeds[bi].Nickname, PrivateNote |-> <<>>],
                  cfg.CreateBlockedIn,
                  processBlocked(pages, fs, dirs, blockeds[bi], cfg.CreateBlockedIn, io))
  /\ bi' = bi + 1
  /\ UNCHANGED <<blockedsTxt, notesTxt, cfg, blockeds, privateNotes, ni, fs0, pageVars, call>>

BlockedsDone ==
  /\ pc = "blocked"
  /\ bi > Len(blockeds)
  /\ pc' = NextStage(pc)
  /\ UNCHANGED <<fs, dirs, blockedsTxt, notesTxt, cfg, pages, blockeds, privateNotes, bi, ni,
                 ret, fails, log, last, fs0, pageVars, call>>

\* one iteration of "for _, note := range privateNotes" (sync.go:74-79)
ProcessPrivateNote ==
  /\ pc = "notes"
  /\ ni <= Len(privateNotes)
  /\ \E io \in IOChoices :
       /\ io # "none" => fails < MaxIOFailures
       /\ Handled("note",
                  [UserID |-> privateNotes[ni].MemberID, CreatedAt |-> privateNotes[ni].CreatedAt,
                   Nickname |-> <<>>, PrivateNote |-> privateNotes[ni].PrivateNote],
                  determineFolderForUser(cfg.CreatePeopleIn, privateNotes[ni].PrivateNote),
                  processPrivateNote(pages, fs, dirs, privateNotes[ni], cfg.CreatePeopleIn, io))
  /\ ni' = ni + 1
  /\ UNCHANGED <<blockedsTxt, notesTxt, cfg, blockeds, privateNotes, bi, fs0, pageVars, call>>

NotesDone ==
  /\ pc = "notes"
  /\ ni > Len(privateNotes)
  /\ pc' = NextStage(pc)
  /\ UNCHANGED <<fs, dirs, blockedsTxt, notesTxt, cfg, pages, blockeds, privateNotes, bi, ni,
                 ret, fails, log, last, fs0, pageVars, call>>

\* "Sync completed successfully" (sync.go:81-82)
Return ==
  /\ pc = "return"
  /\ pc' = "done"
  /\ ret' = "nil"
  /\ UNCHANGED <<fs, dirs, blockedsTxt, notesTxt, cfg, pages, blockeds, privateNotes, bi, ni,
                 fails, log, last, fs0, pageVars, call>>

Next ==
  \/ Load
  \/ ReadBlockeds
  \/ ReadPrivateNotes
  \/ ProcessBlocked
  \/ BlockedsDone
  \/ ProcessPrivateNote
  \/ NotesDone
  \/ Return

Spec == InitSync /\ [][Next]_vars

\* ------------------------------------------------------------------ Page.Save, loadPage
\* the sync state while one page is saved and loaded
SyncIdle ==
  /\ fs = <<>> /\ dirs = {<<>>} /\ fs0 = <<>>
  /\ blockedsTxt = [exists |-> FALSE, rows |-> <<>>]
  /\ notesTxt = [exists |-> FALSE, rows |-> <<>>]
  /\ cfg = [CreatePeopleIn |-> <<>>, CreateBlockedIn |-> <<>>]
  /\ pages = <<>> /\ blockeds = <<>> /\ privateNotes = <<>>
  /\ pc = "done" /\ bi = 1 /\ ni = 1 /\ ret = "none" /\ fails = 0
  /\ log = <<>> /\ last = NoLast

\* a Page built in memory, or a file written by hand
InitPage ==
  /\ SyncIdle
  /\ \/ /\ \E f \in FieldNames, v \in Values \cup BlockBodies, full \in BOOLEAN :
             /\ v \in BlockBodies => f = "body"
             /\ mem = [st |-> "page", page |-> Doc(f, v, full)]
        /\ disk = NoDisk
     \/ /\ mem = NoMem
        /\ \E raw \in RawFiles : disk = [exists |-> TRUE, data |-> raw]
  /\ mem0 = mem
  /\ disk0 = disk
  /\ ops = <<>>
  /\ call = NoCall

\* page.Save()
PageSave ==
  /\ Len(ops) < MaxOps
  /\ mem.st \in {"page", "loaded"}
  /\ disk' = [exists |-> TRUE, data |-> SaveBytes(mem.page)]
  /\ ops' = Append(ops, "save")
  /\ UNCHANGED <<mem, mem0, disk0, syncVars, call>>

\* vault.LoadPage(path)
PageLoad ==
  /\ Len(ops) < MaxOps
  /\ disk.exists
  /\ \E r \in {loadPage(PageFile, disk.data)} :
       mem' = [st |-> IF r.err THEN "err" ELSE "loaded", page |-> r.page]
  /\ ops' = Append(ops, "load")
  /\ UNCHANGED <<disk, mem0, disk0, syncVars, call>>

NextPage ==
  \/ PageSave
  \/ PageLoad

SpecPage == InitPage /\ [][NextPage]_vars


\* ------------------------------------------------------------------ Run as a function
\* a variant that handles the first blocked record only
blockedLoopFirst(v, bs, createBlockedIn) ==
  IF bs = <<>> THEN v
  ELSE LET r == processBlocked(v.pages, v.fs, v.dirs, Head(bs), createBlockedIn, "none")
       IN  [pages |-> r.pages, fs |-> r.fs, dirs |-> r.dirs, failed |-> v.failed \/ r.err]

\* "for _, blocked := range blockeds" (sync.go:66-71) when the environment
\* fails no system call; v holds vault.Pages, the files, the directories and
\* whether a record has met an error
RECURSIVE blockedLoop(_, _, _)
blockedLoop(v, bs, createBlockedIn) ==
  IF bs = <<>> THEN v
  ELSE LET r == processBlocked(v.pages, v.fs, v.dirs, Head(bs), createBlockedIn, "none")
       IN  blockedLoop([pages |-> r.pages, fs |-> r.fs, dirs |-> r.dirs,
                        failed |-> v.failed \/ r.err],
                       Tail(bs), createBlockedIn)

\* "for _, note := range privateNotes" (sync.go:74-79), likewise
RECURSIVE noteLoop(_, _, _)
noteLoop(v, ns, createPeopleIn) ==
  IF ns = <<>> THEN v
  ELSE LET r == processPrivateNote(v.pages, v.fs, v.dirs, Head(ns), createPeopleIn, "none")
       IN  noteLoop([pages |-> r.pages, fs |-> r.fs, dirs |-> r.dirs,
                     failed |-> v.failed \/ r.err],
                    Tail(ns), createPeopleIn)

\* a whole Run started on the files f with the records bs and ns, once both
\* data files are read: what it leaves behind
SyncRun(f, d, bs, ns, c) ==
  IF VaultLoad(f).err THEN [pages |-> <<>>, fs |-> f, dirs |-> d, failed |-> TRUE]
  ELSE noteLoop(blockedLoop([pages |-> VaultLoad(f).pages, fs |-> f, dirs |-> d,
                             failed |-> FALSE],
                            bs, c.CreateBlockedIn),
                ns, c.CreatePeopleIn)

\* ------------------------------------------------------------------ function calls
\* The functions that compute a result from their arguments alone; a
\* behaviour makes one call, on arguments drawn from the sets below.
\* most rules in a CreatePeopleIn list
MaxRules == 2

\* --create-people-in values: folder[:keyword,keyword...]
RuleStrings ==
  { <<"P">>,
    <<"P", ":">>,
    <<"P", ":", SP, ",", SP>>,
    <<"Q", ":", "a">>,
    <<"Q", SP, ":", SP, "A", "b", SP, ",", "b">>,
    <<"R", ":", "b", ",", "a">>,
    <<"R", ":", "b", ":", "a">> }

\* private notes
NoteTexts == {<<>>} \cup StrUpTo({"a", "b", "A"}, MaxLen)

InitCalls ==
  /\ SyncIdle
  /\ mem = NoMem /\ disk = NoDisk /\ ops = <<>> /\ mem0 = NoMem /\ disk0 = NoDisk
  /\ call = NoCall

\* sync.determineFolderForUser(userID, privateNote) with sync.CreatePeopleIn = rules
CallDetermineFolder ==
  /\ call = NoCall
  /\ \E rules \in SeqsUpTo(RuleStrings, MaxRules), note \in NoteTexts :
       call' = [op |-> "determineFolderForUser", rules |-> rules, note |-> note,
                out |-> determineFolderForUser(rules, note)]
  /\ UNCHANGED <<syncVars, pageVars>>

\* parseFolderConfig(config)
CallParseFolderConfig ==
  /\ call = NoCall
  /\ \E config \in RuleStrings :
       call' = [op |-> "parseFolderConfig", config |-> config,
                out |-> parseFolderConfig(config)]
  /\ UNCHANGED <<syncVars, pageVars>>

\* documents for findPageByUserID: their url and url-aliases
MaxPages == 2
User12 == UrlPrefix \o <<"1", "2">>
User45 == UrlPrefix \o <<"4", "5">>
Other12 == <<"https://example.com", SLASH, "1", "2">>
Urls == {<<>>, User12, User45, Other12, User12 \o <<SLASH, "pictures">>}
AliasLists == {<<>>, <<User12>>, <<User12, Other12>>, <<User45, User12>>}
UserIDs == {<<"1", "2">>, <<"4", "5">>, <<"4">>, <<"5">>}

\* findPageByUserID(vault, userID)
CallFindPage ==
  /\ call = NoCall
  /\ \E pgs \in SeqsUpTo([Url : Urls, UrlAliases : AliasLists], MaxPages), userID \in UserIDs :
       call' = [op |-> "findPageByUserID", pages |-> pgs, userID |-> userID,
                out |-> findPageByUserID(pgs, userID)]
  /\ UNCHANGED <<syncVars, pageVars>>

\* ------------------------------------------------------------------ generate: mergeUserData
\* userMap[k] = v
Put(userMap, k, v) == [x \in DOMAIN userMap \cup {k} |-> IF x = k THEN v ELSE userMap[x]]

\* the entry made from a blocked record
FromBlocked(blocked) ==
  [UserID |-> blocked.UserID, Nickname |-> blocked.Nickname,
   URL |-> UrlPrefix \o blocked.UserID, Blocked |-> TRUE, BlockedAt |-> blocked.CreatedAt,
   PrivateNote |-> <<>>, NoteCreated |-> <<>>, NoteUpdated |-> <<>>]

\* the first loop of mergeUserData
RECURSIVE AddBlockeds(_, _)
AddBlockeds(userMap, blockedList) ==
  IF blockedList = <<>> THEN userMap
  ELSE AddBlockeds(Put(userMap, Head(blockedList).UserID, FromBlocked(Head(blockedList))),
                   Tail(blockedList))

\* a variant that marks the entry made from a note as blocked
FromNoteBlocked(note) ==
  [UserID |-> note.MemberID, Nickname |-> <<>>, URL |-> UrlPrefix \o note.MemberID,
   Blocked |-> TRUE, BlockedAt |-> <<>>, PrivateNote |-> note.PrivateNote,
   NoteCreated |-> note.CreatedAt, NoteUpdated |-> note.UpdatedAt]

\* the entry made from a note record of a user not seen before
FromNote(note) ==
  [UserID |-> note.MemberID, Nickname |-> <<>>, URL |-> UrlPrefix \o note.MemberID,
   Blocked |-> FALSE, BlockedAt |-> <<>>, PrivateNote |-> note.PrivateNote,
   NoteCreated |-> note.CreatedAt, NoteUpdated |-> note.UpdatedAt]

\* a variant that replaces the existing entry by the one made from the note
WithNoteReplaced(existing, note) == FromNote(note)

\* the existing entry with the note merged into it
WithNote(existing, note) ==
  [existing EXCEPT !.PrivateNote = note.PrivateNote, !.NoteCreated = note.CreatedAt,
                   !.NoteUpdated = note.UpdatedAt]

\* the second loop of mergeUserData
RECURSIVE MergeNotes(_, _)
MergeNotes(userMap, noteList) ==
  IF noteList = <<>> THEN userMap
  ELSE MergeNotes(
         Put(userMap, Head(noteList).MemberID,
             IF Head(noteList).MemberID \in DOMAIN userMap
             THEN WithNote(userMap[Head(noteList).MemberID], Head(noteList))
             ELSE FromNote(Head(noteList))),
         Tail(noteList))

\* the orders in which "range userMap" can visit the keys
KeyOrders(userMap) ==
  {order \in [1..Cardinality(DOMAIN userMap) -> DOMAIN userMap] :
     \A i, j \in DOMAIN order : order[i] = order[j] => i = j}

\* mergeUserData(blockeds, privateNotes): its possible results
mergeUserData(blockedList, noteList) ==
  {[i \in DOMAIN order |-> MergeNotes(AddBlockeds(<<>>, blockedList), noteList)[order[i]]] :
     order \in KeyOrders(MergeNotes(AddBlockeds(<<>>, blockedList), noteList))}

\* records for mergeUserData
MaxMerge == 2
MergeBlockeds ==
  [UserID : {<<"1">>, <<"2">>}, CreatedAt : {<<"a">>}, UpdatedAt : {<<"b">>},
   Nickname : {<<"Bob">>, <<"Al">>}]
MergeNotePool ==
  [MemberID : {<<"2">>, <<"3">>}, CreatedAt : {<<"c">>}, UpdatedAt : {<<"d">>},
   PrivateNote : {<<"x">>, <<"y">>}]

\* mergeUserData(blockeds, privateNotes)
CallMerge ==
  /\ call = NoCall
  /\ \E bs \in SeqsUpTo(MergeBlockeds, MaxMerge), ns \in SeqsUpTo(MergeNotePool, MaxMerge) :
       \E result \in mergeUserData(bs, ns) :
         call' = [op |-> "mergeUserData", blockeds |-> bs, privateNotes |-> ns,
                  out |-> result]
  /\ UNCHANGED <<syncVars, pageVars>>

\* ------------------------------------------------------------------ Vault queries
\* vault.InFolder(folder): the pages of pgs in that folder, "" standing for "."
RECURSIVE InFolder(_, _)
InFolder(pgs, folder) ==
  IF pgs = <<>> THEN <<>>
  ELSE (IF Head(pgs).Folder = (IF folder = <<>> THEN <<Dot>> ELSE folder)
        THEN <<Head(pgs)>> ELSE <<>>)
       \o InFolder(Tail(pgs), folder)

\* a variant of the tag loop without its break: one append per equal tag
RECURSIVE TagAppendsNoBreak(_, _)
TagAppendsNoBreak(tags, tag) ==
  IF tags = <<>> THEN 0
  ELSE (IF Head(tags) = tag THEN 1 ELSE 0) + TagAppendsNoBreak(Tail(tags), tag)

\* the tag loop of WithTag: the number of appends it makes for one page (it
\* breaks at the first equal tag)
RECURSIVE TagAppends(_, _)
TagAppends(tags, tag) ==
  IF tags = <<>> THEN 0
  ELSE IF Head(tags) = tag THEN 1
  ELSE TagAppends(Tail(tags), tag)

\* vault.WithTag(tag)
RECURSIVE WithTag(_, _)
WithTag(pgs, tag) ==
  IF pgs = <<>> THEN <<>>
  ELSE [k \in 1..TagAppends(Head(pgs).Tags, tag) |-> Head(pgs)] \o WithTag(Tail(pgs), tag)

\* pages for the queries: their folder and tags; "at" stands for the identity
\* of the page object, its position in vault.Pages
QueryFolders == {<<Dot>>, << <<"People">> >>, << <<"People">>, <<"x">> >>}
QueryTags == {<<"a">>, <<"A">>, <<"b">>}
TagLists == {<<>>, << <<"a">> >>, << <<"a">>, <<"a">> >>, << <<"A">>, <<"b">> >>}
PagesAt(pgs) == [i \in DOMAIN pgs |-> [at |-> i, Folder |-> pgs[i].Folder, Tags |-> pgs[i].Tags]]

\* vault.InFolder(folder) and vault.WithTag(tag)
CallQuery ==
  /\ call = NoCall
  /\ \E pgs \in SeqsUpTo([Folder : QueryFolders, Tags : TagLists], MaxPages) :
       \/ \E folder \in QueryFolders \cup {<<>>} :
            call' = [op |-> "InFolder", pages |-> PagesAt(pgs), arg |-> folder,
                     out |-> InFolder(PagesAt(pgs), folder)]
       \/ \E tag \in QueryTags :
            call' = [op |-> "WithTag", pages |-> PagesAt(pgs), arg |-> tag,
                     out |-> WithTag(PagesAt(pgs), tag)]
  /\ UNCHANGED <<syncVars, pageVars>>

\* rows of a data file, some with fewer than four fields
MaxRows == 2
RowPool ==
  { << <<"1", "2">>, <<"D">>, <<"D">>, <<"Bob">> >>,
    << <<"5">>, <<"D">>, <<"D">>, <<"a">> >>,
    << <<"1">>, <<"D">>, <<"D">> >>,
    << <<"4">> >> }

\* sync.readBlockeds() and sync.readPrivateNotes() on a file that exists
CallReadData ==
  /\ call = NoCall
  /\ \E rows \in SeqsUpTo(RowPool, MaxRows), reader \in {"readBlockeds", "readPrivateNotes"} :
       call' = [op |-> reader, rows |-> <<Header>> \o rows,
                out |-> IF reader = "readBlockeds"
                        THEN readBlockeds([exists |-> TRUE, rows |-> <<Header>> \o rows])
                        ELSE readPrivateNotes([exists |-> TRUE, rows |-> <<Header>> \o rows])]
  /\ UNCHANGED <<syncVars, pageVars>>

NextCalls ==
  \/ CallDetermineFolder
  \/ CallParseFolderConfig
  \/ CallFindPage
  \/ CallMerge
  \/ CallReadData
  \/ CallQuery

SpecCalls == InitCalls /\ [][NextCalls]_vars

\* ------------------------------------------------------------------ properties
\* two documents agree on the six metadata fields and on the body
SameDocument(p, q) ==
  /\ p.Tags = q.Tags
  /\ p.Aliases = q.Aliases
  /\ p.Url = q.Url
  /\ p.UrlAliases = q.UrlAliases
  /\ p.WebBadgeColor = q.WebBadgeColor
  /\ p.WebMessage = q.WebMessage
  /\ p.Content = q.Content

\* every metadata field holds a non-empty value
AllFieldsSet(p) ==
  /\ \A l \in {p.Tags, p.Aliases, p.UrlAliases} : l # <<>> /\ \A i \in 1..Len(l) : l[i] # <<>>
  /\ \A s \in {p.Url, p.WebBadgeColor, p.WebMessage} : s # <<>>

\* C1: a document with all six metadata fields set and any body, saved and
\* then loaded from the same path, comes back with the same six field values
\* and the same body.
C1_SaveLoadRoundTrip ==
  (mem0.st = "page" /\ AllFieldsSet(mem0.page) /\ ops = <<"save", "load">>)
    => (mem.st = "loaded" /\ SameDocument(mem.page, mem0.page))


\* the positions (0-based) after the opening delimiter where a line "---" starts
ClosingLines(raw) ==
  {i \in 4..(Len(raw) - 4) : raw[i] = NL /\ SubSeq(raw, i + 1, i + 4) = DELIM}

\* the content opens with a "---" line and has a later "---" line
HasMetadataBlock(raw) == HasPrefix(raw, DELIM) /\ ClosingLines(raw) # {}

\* the text after the metadata block; the whole content when there is no block
BodyText(raw) ==
  IF HasMetadataBlock(raw) THEN SubSeq(raw, Min(ClosingLines(raw)) + 5, Len(raw)) ELSE raw

\* C2: loading a file and saving it with no field changed leaves the body
\* text after the metadata block as it was, and leaves a file without a
\* metadata block unchanged as a whole.
C2_BodyPreserved ==
  (disk0.exists /\ ops = <<"load", "save">>)
    => IF HasMetadataBlock(disk0.data)
       THEN \/ disk.data = BodyText(disk0.data)
            \/ HasPrefix(disk.data, DELIM) /\ HasSuffix(disk.data, DELIM \o BodyText(disk0.data))
       ELSE disk.data = disk0.data


\* the record handled last met more than one matching page
LastAmbiguous ==
  last.kind # "none" /\ Len(findPageByUserID(last.pagesBefore, last.rec.UserID)) > 1

\* Run is over and has handled every record of both streams
AllHandled == ret = "nil" /\ Len(log) = Len(blockeds) + Len(privateNotes)

\* C3: a record whose identifier matches more than one page creates no file,
\* changes no page in memory and no file on disk, and raises no error; the
\* run goes on to handle every later record.
C3_AmbiguousNoOp ==
  /\ LastAmbiguous =>
       /\ pages = last.pagesBefore
       /\ fs = last.fsBefore
       /\ dirs = last.dirsBefore
       /\ ~last.res.err
       /\ ret # "err"
  /\ (pc = "done" /\ \E i \in 1..Len(log) : log[i].nmatch > 1) => AllHandled

\* an ambiguous record was skipped and a later record was handled after it
C3_Witness ==
  /\ pc = "done"
  /\ Len(log) >= 2
  /\ log[1].nmatch > 1 /\ log[1].outcome = "skipped"
  /\ log[Len(log)].outcome = "ok"

\* the number of "blocked" entries of a tag list
BlockedCount(tags) == Cardinality({i \in 1..Len(tags) : tags[i] = <<"blocked">>})

\* the last record was a blocked record and its handler reached a page
LastBlockedOnPage == last.kind = "blocked" /\ last.res.idx > 0

\* C4: after a blocked record the page's tags are the previous tags if they
\* held "blocked", else the previous tags with "blocked" appended; no page
\* ever carries the tag twice, however often a record is repeated.
C4_BlockedTagOnce ==
  /\ LastBlockedOnPage =>
       pages[last.res.idx].Tags =
         IF \E i \in 1..Len(last.res.before.Tags) : last.res.before.Tags[i] = <<"blocked">>
         THEN last.res.before.Tags
         ELSE last.res.before.Tags \o << <<"blocked">> >>
  /\ \A i \in 1..Len(pages) : BlockedCount(pages[i].Tags) <= 1

\* the same blocked record was handled twice, the second time on a page that
\* already carried the tag
C4_Witness ==
  /\ LastBlockedOnPage
  /\ Len(log) >= 2
  /\ log[Len(log) - 1].kind = "blocked" /\ log[Len(log) - 1].id = last.rec.UserID
  /\ log[Len(log) - 1].outcome = "ok"
  /\ BlockedCount(last.res.before.Tags) = 1
  /\ pages[last.res.idx].Tags = last.res.before.Tags

\* the last record was a note record and its handler returned no error
LastNoteOk == last.kind = "note" /\ last.res.outcome = "ok"

\* the page the last handler worked on, read again from its file
Reread == loadPage(pages[last.res.idx].FilePath, fs[pages[last.res.idx].FilePath])

\* C5: after a note record is handled without error, the page's web-message,
\* in memory and as read again from disk, is the record's note text.
C5_NoteOverwrites ==
  LastNoteOk =>
    /\ pages[last.res.idx].WebMessage = last.rec.PrivateNote
    /\ ~Reread.err
    /\ Reread.page.WebMessage = last.rec.PrivateNote

\* C6: a blocked record sets the web-message to "Blocked on <createdAt>" when
\* the message was empty before, and leaves a non-empty message as it was.
C6_BlockedKeepsMessage ==
  LastBlockedOnPage =>
    pages[last.res.idx].WebMessage =
      IF last.res.before.WebMessage = <<>>
      THEN <<"Blocked", SP, "on", SP>> \o last.rec.CreatedAt
      ELSE last.res.before.WebMessage

\* a blocked record met a page that had a message and was saved
C6_Witness ==
  /\ LastBlockedOnPage
  /\ last.res.outcome = "ok"
  /\ last.res.before.WebMessage # <<>>
  /\ last.res.before.WebMessage # <<"Blocked", SP, "on", SP>> \o last.rec.CreatedAt

\* C7: when Run returns an error, no file and no directory has been created
\* or changed and no record was handled; a record is handled only after both
\* data files have been read in full.
C7_UpFrontAbort ==
  /\ ret = "err" => (fs = fs0 /\ dirs = DirsOf(fs0) /\ log = <<>>)
  /\ log # <<>> =>
       /\ blockedsTxt.exists /\ notesTxt.exists
       /\ Len(blockeds) = Len(blockedsTxt.rows) - 1
       /\ Len(privateNotes) = Len(notesTxt.rows) - 1

\* Run gave up on the missing notes file with blocked records waiting
C7_Witness ==
  /\ ret = "err"
  /\ blockedsTxt.exists /\ ~notesTxt.exists
  /\ Len(blockeds) > 0

\* C8: an I/O error on one record does not stop Run: every record of both
\* streams is handled and Run returns nil.
C8_PartialFailure ==
  /\ (\E i \in 1..Len(log) : log[i].outcome = "error") => ret # "err"
  /\ (pc = "done" /\ log # <<>>) => AllHandled

\* a record failed on a system call, a later record was saved, Run returned nil
C8_Witness ==
  /\ pc = "done" /\ ret = "nil"
  /\ Len(log) >= 2
  /\ log[1].outcome = "error" /\ log[1].iofault
  /\ log[Len(log)].outcome = "ok"

\* the last handler created a page and returned no error
LastCreated == last.kind # "none" /\ last.res.created /\ last.res.outcome = "ok"

\* the template createPageInFolder used: missing, or with the url line
DefaultOrUrlTemplate ==
  TemplatePath \notin DOMAIN last.fsBefore
  \/ StrContains(last.fsBefore[TemplatePath], UrlLine \o <<NL>>)

\* C9: a page created for identifier id has the url "https://fetlife.com/users/"
\* followed by id once, with the vault template and with the built-in one.
C9_CreatedUrl ==
  (LastCreated /\ DefaultOrUrlTemplate) => pages[last.res.idx].Url = UrlPrefix \o last.rec.UserID

\* the name createPageInFolder gives the page of the last record
LastPageName == IF last.rec.Nickname # <<>> THEN last.rec.Nickname ELSE <<"user-">> \o last.rec.UserID

\* C10: a created page is written to <folder>/<pageName>.md and is titled
\* pageName: the display name if there is one, else "user-" and the
\* identifier; pages created for note records are titled "user-<id>".
C10_CreatedName ==
  LastCreated =>
    /\ pages[last.res.idx].Title = LastPageName
    /\ pages[last.res.idx].FilePath \in DOMAIN fs
    /\ pages[last.res.idx].FilePath \notin DOMAIN last.fsBefore
         => pages[last.res.idx].FilePath = <<last.folder, LastPageName \o <<MD>>>>
    /\ last.kind = "note" => pages[last.res.idx].Title = <<"user-">> \o last.rec.UserID


\* C11: a page created for a blocked record lies in the configured blocked
\* folder, whatever the rules and the nickname; a page created for a note
\* record lies in the folder determineFolderForUser returns for the note.
C11_FolderPerFlow ==
  LastCreated =>
    pages[last.res.idx].Folder =
      <<IF last.kind = "blocked" THEN cfg.CreateBlockedIn
        ELSE determineFolderForUser(cfg.CreatePeopleIn, last.rec.PrivateNote)>>


\* keyword kw occurs in note when case is ignored
OccursFolded(kw, note) == StrContains(ToLower(note), ToLower(kw))

\* the rules of a list that have a keyword occurring in note
RulesHit(rules, note) ==
  {i \in 1..Len(rules) :
     \E k \in 1..Len(parseFolderConfig(rules[i]).keywords) :
       OccursFolded(parseFolderConfig(rules[i]).keywords[k], note)}

\* determineFolderForUser was called on a non-empty list
RoutedCall == call.op = "determineFolderForUser" /\ call.rules # <<>>

\* C12: for a non-empty note and a non-empty rule list the result is the
\* folder of the first rule, in list order, that has a keyword occurring in
\* the note as a case-insensitive substring.
C12_FirstRuleWins ==
  (RoutedCall /\ call.note # <<>> /\ RulesHit(call.rules, call.note) # {})
    => call.out = parseFolderConfig(call.rules[Min(RulesHit(call.rules, call.note))]).folder

\* two rules have a keyword in the note, the second of them first by a
\* keyword that occurs later in the note
C12_Witness ==
  /\ RoutedCall
  /\ Cardinality(RulesHit(call.rules, call.note)) = 2
  /\ call.note = <<"b", "A">>
  /\ call.rules = << <<"Q", ":", "a">>, <<"R", ":", "b", ",", "a">> >>
  /\ call.out = <<"Q">>

\* C13: with an empty note, or with no keyword of any rule in the note, the
\* result is the folder of the first rule, whether or not that rule has
\* keywords; with an empty rule list the result is "People".
C13_RoutingDefault ==
  /\ (RoutedCall /\ (call.note = <<>> \/ RulesHit(call.rules, call.note) = {}))
       => call.out = parseFolderConfig(call.rules[1]).folder
  /\ (call.op = "determineFolderForUser" /\ call.rules = <<>>) => call.out = <<"People">>

\* the first rule has keywords, the note is not empty, and nothing matched
C13_Witness ==
  /\ RoutedCall
  /\ Len(call.rules) = 2
  /\ parseFolderConfig(call.rules[1]).keywords # <<>>
  /\ parseFolderConfig(call.rules[1]).folder # parseFolderConfig(call.rules[2]).folder
  /\ call.note # <<>>
  /\ RulesHit(call.rules, call.note) = {}
  /\ call.out = parseFolderConfig(call.rules[1]).folder


\* the text of a rule before its first ":" (all of it when there is none)
BeforeColon(c) == IF Find(c, ":") = 0 THEN c ELSE SubSeq(c, 1, Find(c, ":") - 1)

\* the text of a rule after its first ":"
AfterColon(c) == IF Find(c, ":") = 0 THEN <<>> ELSE SubSeq(c, Find(c, ":") + 1, Len(c))

\* the comma-separated pieces of s, trimmed and lowercased, the empty ones dropped
TrimmedPieces(s) ==
  SelectSeq([i \in 1..Len(Split(s, ",")) |-> ToLower(TrimSP(Split(s, ",")[i]))],
            LAMBDA piece : piece # <<>>)

\* C14: parseFolderConfig returns the text before the first ":" unchanged as
\* folder, and as keywords the pieces after it, split at ",", trimmed,
\* lowercased, the empty ones dropped, in order; "Folder", "Folder:" and
\* "Folder: , " give the same result, without keywords.
C14_RuleParsing ==
  call.op = "parseFolderConfig" =>
    /\ call.out.folder = BeforeColon(call.config)
    /\ call.out.keywords = TrimmedPieces(AfterColon(call.config))
    /\ call.config \in {<<"P">>, <<"P", ":">>, <<"P", ":", SP, ",", SP>>}
         => call.out = [folder |-> <<"P">>, keywords |-> <<>>]

\* "Q : Ab ,b" parsed: the folder keeps its blank, the keywords are trimmed
\* and lowercased
C14_Witness ==
  /\ call.op = "parseFolderConfig"
  /\ call.config = <<"Q", SP, ":", SP, "A", "b", SP, ",", "b">>
  /\ call.out = [folder |-> <<"Q", SP>>, keywords |-> << <<"a", "b">>, <<"b">> >>]


\* the identifier test of spec.md on one document: its url, or one of its
\* url-aliases, contains "/users/<id>" or ends with "/<id>"
DocMatches(page, userID) ==
  \/ UrlMatches(page.Url, userID)
  \/ \E i \in 1..Len(page.UrlAliases) : UrlMatches(page.UrlAliases[i], userID)

\* C15: findPageByUserID returns exactly the documents that pass the
\* identifier test, in collection order, each at most once (also a document
\* whose url and aliases, or several of whose aliases, match).
C15_ExactMatches ==
  call.op = "findPageByUserID" =>
    /\ \A i \in 1..Len(call.pages) :
         Cardinality({k \in 1..Len(call.out) : call.out[k] = i})
           = IF DocMatches(call.pages[i], call.userID) THEN 1 ELSE 0
    /\ \A k \in 1..Len(call.out) - 1 : call.out[k] < call.out[k + 1]

\* both documents returned in order, the second one matching by two aliases
C15_Witness ==
  /\ call.op = "findPageByUserID"
  /\ call.userID = <<"1", "2">>
  /\ call.pages = << [Url |-> Other12, UrlAliases |-> <<>>],
                     [Url |-> <<>>, UrlAliases |-> <<User12, Other12>>] >>
  /\ call.out = <<1, 2>>


\* the positions findPageByUserID returned
Found == {call.out[k] : k \in 1..Len(call.out)}

\* C16 as stated: looking up identifier "5" matches a document whose url is
\* https://fetlife.com/users/45.
C16_SuffixFalsePositive ==
  (call.op = "findPageByUserID" /\ call.userID = <<"5">>) =>
    \A i \in 1..Len(call.pages) : call.pages[i].Url = User45 => i \in Found

\* C16, amended: the false positive is on a leading part of the identifier.
\* Looking up "4" matches a document whose url is https://fetlife.com/users/45,
\* by the substring test on "/users/4"; looking up "5" matches such a document
\* only if one of its aliases matches "5".
C16_PrefixFalsePositive ==
  call.op = "findPageByUserID" =>
    \A i \in 1..Len(call.pages) :
      call.pages[i].Url = User45 =>
        /\ call.userID = <<"4">> => i \in Found
        /\ (call.userID = <<"5">> /\ i \in Found) =>
             \E j \in 1..Len(call.pages[i].UrlAliases) :
               UrlMatches(call.pages[i].UrlAliases[j], <<"5">>)

\* identifier "4" looked up among one document, of user 45, and found
C16_Witness ==
  /\ call.op = "findPageByUserID"
  /\ call.userID = <<"4">>
  /\ call.pages = << [Url |-> User45, UrlAliases |-> <<>>] >>
  /\ call.out = <<1>>


\* the identifiers of the blocked records and of the note records of a merge
BlockedIds == {call.blockeds[i].UserID : i \in 1..Len(call.blockeds)}
NoteIds == {call.privateNotes[i].MemberID : i \in 1..Len(call.privateNotes)}

\* no identifier twice in either list, none in both
UniqueDisjoint ==
  /\ Cardinality(BlockedIds) = Len(call.blockeds)
  /\ Cardinality(NoteIds) = Len(call.privateNotes)
  /\ BlockedIds \cap NoteIds = {}

\* C17: mergeUserData returns exactly one record per identifier of either
\* input; N unique blocked ids and M unique note ids disjoint from them give
\* N+M records; a blocked-only record has Blocked=true and empty PrivateNote,
\* NoteCreated, NoteUpdated; a note-only record has Blocked=false and empty
\* Nickname and BlockedAt.
C17_MergeCardinality ==
  call.op = "mergeUserData" =>
    /\ \A id \in BlockedIds \cup NoteIds :
         Cardinality({k \in 1..Len(call.out) : call.out[k].UserID = id}) = 1
    /\ \A k \in 1..Len(call.out) : call.out[k].UserID \in BlockedIds \cup NoteIds
    /\ UniqueDisjoint => Len(call.out) = Len(call.blockeds) + Len(call.privateNotes)
    /\ \A k \in 1..Len(call.out) :
         /\ call.out[k].UserID \notin NoteIds =>
              /\ call.out[k].Blocked
              /\ call.out[k].PrivateNote = <<>>
              /\ call.out[k].NoteCreated = <<>>
              /\ call.out[k].NoteUpdated = <<>>
         /\ call.out[k].UserID \notin BlockedIds =>
              /\ ~call.out[k].Blocked
              /\ call.out[k].Nickname = <<>>
              /\ call.out[k].BlockedAt = <<>>

\* one blocked user and two other users with notes merged into three records
C17_Witness ==
  /\ call.op = "mergeUserData"
  /\ UniqueDisjoint
  /\ BlockedIds = {<<"1">>} /\ NoteIds = {<<"2">>, <<"3">>}
  /\ Len(call.out) = 3
  /\ \E k \in 1..3 : call.out[k].UserID = <<"3">> /\ ~call.out[k].Blocked

\* C18: for an identifier in both lists mergeUserData yields one record, with
\* Blocked=true, UserID, URL, Nickname and BlockedAt as the blocked record
\* gave them, and PrivateNote, NoteCreated, NoteUpdated of the note record.
C18_MergeUnion ==
  call.op = "mergeUserData" =>
    \A id \in BlockedIds \cap NoteIds :
      /\ Cardinality({k \in 1..Len(call.out) : call.out[k].UserID = id}) = 1
      /\ \A k \in 1..Len(call.out) :
           call.out[k].UserID = id =>
             /\ call.out[k].Blocked
             /\ call.out[k].URL = UrlPrefix \o id
             /\ \E i \in 1..Len(call.blockeds) :
                  /\ call.blockeds[i].UserID = id
                  /\ call.out[k].Nickname = call.blockeds[i].Nickname
                  /\ call.out[k].BlockedAt = call.blockeds[i].CreatedAt
             /\ \E j \in 1..Len(call.privateNotes) :
                  /\ call.privateNotes[j].MemberID = id
                  /\ call.out[k].PrivateNote = call.privateNotes[j].PrivateNote
                  /\ call.out[k].NoteCreated = call.privateNotes[j].CreatedAt
                  /\ call.out[k].NoteUpdated = call.privateNotes[j].UpdatedAt

\* user 2, blocked and with a note, merged into one record after user 1
C18_Witness ==
  /\ call.op = "mergeUserData"
  /\ BlockedIds = {<<"1">>, <<"2">>} /\ NoteIds = {<<"2">>}
  /\ Len(call.out) = 2
  /\ call.out[2].UserID = <<"2">> /\ call.out[2].Blocked
  /\ call.out[2].Nickname = <<"Al">> /\ call.out[2].PrivateNote = <<"y">>


\* no metadata field of the document holds anything
AllFieldsEmpty(p) ==
  /\ p.Tags = <<>> /\ p.Aliases = <<>> /\ p.UrlAliases = <<>>
  /\ p.Url = <<>> /\ p.WebBadgeColor = <<>> /\ p.WebMessage = <<>>

\* the written file is a metadata block between delimiter lines, then the body
Framed(p) == HasPrefix(disk.data, DELIM) /\ HasSuffix(disk.data, DELIM \o p.Content)

\* the lines between the two delimiter lines of a framed file
WrittenBlock(p) == SubSeq(disk.data, 5, Len(disk.data) - Len(p.Content) - 4)

\* key k opens a line of the written metadata block
KeyWritten(p, k) ==
  \E i \in 1..Len(WrittenBlock(p)) :
    WrittenBlock(p)[i] = k /\ (i = 1 \/ WrittenBlock(p)[i - 1] = NL)

\* the written block has a key exactly for the non-empty fields
KeysAsFields(p) ==
  /\ KeyWritten(p, "tags:") <=> p.Tags # <<>>
  /\ KeyWritten(p, "aliases:") <=> p.Aliases # <<>>
  /\ KeyWritten(p, "url:") <=> p.Url # <<>>
  /\ KeyWritten(p, "url-aliases:") <=> p.UrlAliases # <<>>
  /\ KeyWritten(p, "web-badge-color:") <=> p.WebBadgeColor # <<>>
  /\ KeyWritten(p, "web-message:") <=> p.WebMessage # <<>>

\* the fields that are empty in p are empty in q
EmptyStayEmpty(p, q) ==
  /\ p.Tags = <<>> => q.Tags = <<>>
  /\ p.Aliases = <<>> => q.Aliases = <<>>
  /\ p.Url = <<>> => q.Url = <<>>
  /\ p.UrlAliases = <<>> => q.UrlAliases = <<>>
  /\ p.WebBadgeColor = <<>> => q.WebBadgeColor = <<>>
  /\ p.WebMessage = <<>> => q.WebMessage = <<>>

\* C19: Page.Save writes a metadata key if and only if its field is
\* non-empty; an empty field is absent from the written block and reads back
\* as empty; with all six fields empty Save writes the body alone, without
\* delimiter lines.
C19_EmptyFieldsOmitted ==
  (mem0.st = "page" /\ ops \in {<<"save">>, <<"save", "load">>}) =>
    /\ IF AllFieldsEmpty(mem0.page) THEN disk.data = mem0.page.Content
       ELSE Framed(mem0.page) /\ KeysAsFields(mem0.page)
    /\ ops = <<"save", "load">> =>
         mem.st = "loaded" /\ EmptyStayEmpty(mem0.page, mem.page)

\* C19 without the reading back
C19_WrittenKeys ==
  (mem0.st = "page" /\ ops \in {<<"save">>, <<"save", "load">>}) =>
    IF AllFieldsEmpty(mem0.page) THEN disk.data = mem0.page.Content
    ELSE Framed(mem0.page) /\ KeysAsFields(mem0.page)

\* C19 for documents whose body does not open with a metadata block
C19_PlainBody ==
  (mem0.st = "page" /\ mem0.page.Content \notin BlockBodies) => C19_EmptyFieldsOmitted


\* the last handler created a page from a vault template that has a
\* front-matter field other than the six fields of Page
CreatedFromCustom ==
  /\ LastCreated
  /\ TemplatePath \in DOMAIN last.fsBefore
  /\ StrContains(last.fsBefore[TemplatePath], CustomLine)

\* C20: a page created from a Templates/People.md whose front matter has a
\* field other than the six recognized ones still has that field, with its
\* value, in its file after the record has been processed.
C20_TemplateFieldsKept ==
  CreatedFromCustom => StrContains(fs[pages[last.res.idx].FilePath], CustomLine)


\* the data rows of the file read (the rows after the header) with four fields
FullRows == SelectSeq(Tail(call.rows), LAMBDA row : Len(row) = 4)

\* C21: with a 4-column header and some data row of fewer than 4 columns,
\* the reader returns no error and one record for every data row that has 4
\* columns, in file order: exactly the short rows are dropped.
C21_ShortRowsDropped ==
  (call.op \in {"readBlockeds", "readPrivateNotes"} /\ Len(FullRows) < Len(Tail(call.rows))) =>
    /\ ~call.out.err
    /\ Len(call.out.records) = Len(FullRows)
    /\ \A i \in 1..Len(FullRows) :
         /\ call.out.records[i].CreatedAt = FullRows[i][2]
         /\ call.out.records[i].UpdatedAt = FullRows[i][3]
         /\ IF call.op = "readBlockeds"
            THEN /\ call.out.records[i].UserID = FullRows[i][1]
                 /\ call.out.records[i].Nickname = FullRows[i][4]
            ELSE /\ call.out.records[i].MemberID = FullRows[i][1]
                 /\ call.out.records[i].PrivateNote = FullRows[i][4]


\* the pages of the collection that satisfy test, in collection order
PagesWhere(test(_)) == SelectSeq(call.pages, test)

\* C22: InFolder(loc) returns exactly the pages whose folder equals loc (not
\* those of its sub-folders), in collection order, and InFolder("") what
\* InFolder(".") returns; WithTag(tag) returns exactly the pages that have a
\* tag equal to tag, case-sensitively, each once, in collection order.
C22_CollectionQueries ==
  /\ (call.op = "InFolder" /\ call.arg # <<>>) =>
       call.out = PagesWhere(LAMBDA page : page.Folder = call.arg)
  /\ (call.op = "InFolder" /\ call.arg = <<>>) =>
       call.out = PagesWhere(LAMBDA page : page.Folder = <<Dot>>)
  /\ call.op = "WithTag" =>
       call.out = PagesWhere(LAMBDA page : \E i \in 1..Len(page.Tags) : page.Tags[i] = call.arg)

\* tag "a" asked for among a page that has it twice, kept once, and one
\* tagged "A", left out
C22_Witness ==
  /\ call.op = "WithTag"
  /\ call.arg = <<"a">>
  /\ Len(call.pages) = 2
  /\ call.pages[1].Tags = << <<"A">>, <<"b">> >>
  /\ call.pages[2].Tags = << <<"a">>, <<"a">> >>
  /\ call.out = <<call.pages[2]>>


\* C23: in every state of a sync run no two pages of vault.Pages have the
\* same file path.
C23_PathsUnique ==
  \A i, j \in 1..Len(pages) : pages[i].FilePath = pages[j].FilePath => i = j


\* the last handler created a page at a path where a file was already
CreatedOverFile == LastCreated /\ pages[last.res.idx].FilePath \in DOMAIN last.fsBefore

\* C26: if <folder>/<pageName>.md exists when a record without matching
\* page is processed, createPageInFolder does not replace the file's content.
C26_ExistingFileKept ==
  CreatedOverFile =>
    fs[pages[last.res.idx].FilePath] = last.fsBefore[pages[last.res.idx].FilePath]


\* the template of the run is the built-in one or has the url line
UrlTemplate ==
  TemplatePath \notin DOMAIN fs0 \/ StrContains(fs0[TemplatePath], UrlLine \o <<NL>>)

\* the earlier records of the run that had the identifier of the last one
\* and for which a page was synthesized
EarlierCreated ==
  {i \in 1..Len(log) - 1 : log[i].id = log[Len(log)].id /\ log[i].created}

\* C24 as stated: with the built-in template or one with the url line, a
\* later record with the identifier of a page synthesized earlier in the run
\* finds exactly that page and works on it; no second page is synthesized.
C24_FindsExactlyCreated ==
  (UrlTemplate /\ last.kind # "none") =>
    \A i \in EarlierCreated :
      /\ ~last.res.created
      /\ last.res.nmatch = 1
      /\ last.res.idx = log[i].idx

\* C24, amended: the later record finds the synthesized page among its
\* matches and synthesizes no second page; it works on that page when it is
\* the only match, and skips the record when another page's url matches the
\* identifier too.
C24_FindsCreated ==
  (UrlTemplate /\ last.kind # "none") =>
    \A i \in EarlierCreated :
      /\ ~last.res.created
      /\ \E k \in 1..Len(findPageByUserID(last.pagesBefore, last.rec.UserID)) :
           findPageByUserID(last.pagesBefore, last.rec.UserID)[k] = log[i].idx
      /\ IF last.res.nmatch = 1 THEN last.res.idx = log[i].idx
         ELSE last.res.outcome = "skipped"

\* a blocked record synthesized a page and a later note record of the same
\* identifier worked on it
C24_Witness ==
  /\ UrlTemplate
  /\ last.kind = "note"
  /\ last.res.outcome = "ok"
  /\ \E i \in EarlierCreated : log[i].kind = "blocked" /\ last.res.idx = log[i].idx


\* the order of the keys as spec.md gives it
ClaimedKeyOrder ==
  <<"tags:", "aliases:", "url:", "url-aliases:", "web-badge-color:", "web-message:">>

\* where key k opens a line of the written metadata block
KeyLines(p, k) ==
  {i \in 1..Len(WrittenBlock(p)) :
     WrittenBlock(p)[i] = k /\ (i = 1 \/ WrittenBlock(p)[i - 1] = NL)}

\* C25: in the metadata block Page.Save writes, the keys of the non-empty
\* fields come in the order tags, aliases, url, url-aliases,
\* web-badge-color, web-message.
C25_KeyOrder ==
  (mem0.st = "page" /\ ops = <<"save">> /\ Framed(mem0.page)) =>
    \A a, b \in 1..Len(ClaimedKeyOrder) :
      a < b =>
        \A i \in KeyLines(mem0.page, ClaimedKeyOrder[a]),
           j \in KeyLines(mem0.page, ClaimedKeyOrder[b]) : i < j


\* Run has returned nil and no record of it met an error
RanWithoutError ==
  pc = "done" /\ ret = "nil" /\ \A i \in 1..Len(log) : log[i].outcome # "error"

\* C27: after Run has completed once without I/O errors, a second Run on the
\* resulting vault with the same records and folder configuration creates no
\* file and changes the content of no file.
C27_Idempotent ==
  RanWithoutError => SyncRun(fs, dirs, blockeds, privateNotes, cfg).fs = fs

\* C27 for note texts that do not end in "---"
C27_PlainNotes ==
  (\A i \in 1..Len(privateNotes) : ~HasSuffix(privateNotes[i].PrivateNote, <<DASH, DASH, DASH>>))
    => C27_Idempotent


\* the records were handled in the order of Run: the blocked records in file
\* order, then the note records in file order
StreamOrder ==
  \A i \in 1..Len(log) :
    IF i <= Len(blockeds)
    THEN log[i].kind = "blocked" /\ log[i].id = blockeds[i].UserID
    ELSE log[i].kind = "note" /\ log[i].id = privateNotes[i - Len(blockeds)].MemberID

\* the identifiers that are in both streams and match no page of the vault
\* as it was loaded
NewInBoth ==
  {id \in {blockeds[i].UserID : i \in 1..Len(blockeds)}
            \cap {privateNotes[j].MemberID : j \in 1..Len(privateNotes)} :
     findPageByUserID(VaultLoad(fs0).pages, id) = <<>>}

\* the text of the last note record of identifier id
LastNoteText(id) ==
  privateNotes[CHOOSE j \in 1..Len(privateNotes) :
                 /\ privateNotes[j].MemberID = id
                 /\ \A k \in (j + 1)..Len(privateNotes) : privateNotes[k].MemberID # id].PrivateNote

\* the pages that match id at the end of the run
MatchesNow(id) == findPageByUserID(pages, id)

NoOtherMatch(id) ==
  \A i \in 1..Len(log) :
    log[i].id # id => \A k \in 1..Len(MatchesNow(id)) : MatchesNow(id)[k] # log[i].idx

\* the records of the run for which a page was synthesized for id
SynthesizedFor(id) == {i \in 1..Len(log) : log[i].id = id /\ log[i].created}

FilesWritten ==
  {path \in DOMAIN fs : path \notin DOMAIN last.fsBefore \/ fs[path] # last.fsBefore[path]}

\* the pages that were in vault.Pages before the last handler, other than
\* the one it worked on
OtherPages == {i \in 1..Len(last.pagesBefore) : i # last.res.idx}

\* C29: one record writes at most one page file, that of the matched or of
\* the synthesized page; the file and the fields of every other page are
\* unchanged; of a matched page the title, folder, file path, body, aliases,
\* url, url-aliases and web-badge-color are unchanged.
C29_RecordFrame ==
  last.kind # "none" =>
    /\ Cardinality(FilesWritten) <= 1
    /\ DOMAIN last.fsBefore \subseteq DOMAIN fs
    /\ last.res.idx > 0 => FilesWritten \subseteq {pages[last.res.idx].FilePath}
    /\ \A i \in OtherPages :
         /\ pages[i] = last.pagesBefore[i]
         /\ fs[pages[i].FilePath] = last.fsBefore[pages[i].FilePath]
    /\ (last.res.idx > 0 /\ ~last.res.created) =>
         /\ last.res.idx <= Len(last.pagesBefore)
         /\ \A field \in {"Title", "Folder", "FilePath", "Content", "Aliases", "Url",
                          "UrlAliases", "WebBadgeColor"} :
              pages[last.res.idx][field] = last.pagesBefore[last.res.idx][field]

\* C29 in the states where no two pages have the same file path
C29_UniquePaths == C23_PathsUnique => C29_RecordFrame


\* the rearrangements of the sequence s
Rearranged(s) ==
  {[i \in 1..Len(s) |-> s[order[i]]] :
     order \in {o \in [1..Len(s) -> 1..Len(s)] : \A i, j \in 1..Len(s) : o[i] = o[j] => i = j}}

\* the records of the blocked stream differ pairwise in identifier and name
DistinctBlockeds ==
  \A i, j \in 1..Len(blockeds) :
    i # j => /\ blockeds[i].UserID # blockeds[j].UserID
             /\ blockeds[i].Nickname # blockeds[j].Nickname

\* the records of the note stream differ pairwise in identifier
DistinctNotes ==
  \A i, j \in 1..Len(privateNotes) : i # j => privateNotes[i].MemberID # privateNotes[j].MemberID

\* a run of the same vault without error leaves the files of this run, with
\* the blocked records, and with the note records, in any order
SameFilesInAnyOrder ==
  /\ DistinctBlockeds =>
       \A bs \in Rearranged(blockeds) :
         LET r == SyncRun(fs0, DirsOf(fs0), bs, privateNotes, cfg)
         IN  ~r.failed => r.fs = fs
  /\ DistinctNotes =>
       \A ns \in Rearranged(privateNotes) :
         LET r == SyncRun(fs0, DirsOf(fs0), blockeds, ns, cfg)
         IN  ~r.failed => r.fs = fs

NoSharedPage ==
  \A i \in 1..Len(pages) :
    Cardinality({id \in {log[k].id : k \in 1..Len(log)} :
                   \E m \in 1..Len(findPageByUserID(pages, id)) :
                     findPageByUserID(pages, id)[m] = i}) <= 1

====
